---------------------------- MODULE Spec2Model ----------------------------
(***************************************************************************)
(* Home-Facelift-Copilot: the session tools of src/app/tools.py            *)
(* (analyze_and_propose, refine_and_generate, _generate_image,             *)
(* _consistency_check) and the upload callback of src/app/agent.py, as a   *)
(* state machine over the ADK session state.                               *)
(*                                                                         *)
(* External models (vision, plan generation, image edit, judge) are the    *)
(* environment: each call either raises or returns one of a bounded set of *)
(* replies.  A coroutine runs atomically from one await to the next, and   *)
(* the genai client calls are synchronous, so a call blocks the event loop *)
(* from the moment it is sent until it returns.                            *)
(***************************************************************************)
EXTENDS Integers, Sequences, FiniteSets, TLC

VARIABLES
    state,          \* tool_context.state / callback_context.state: key -> value
    uploads,        \* the uploaded-image paths of the session that exist on disk
    op,             \* the tool call in progress: "idle", "analyze", "refine"
    pc,             \* its position: "idle", "gather", "generate", "verify", "returned", "raised"
    image_prompts,  \* the compiled edit instructions of the turn
    tasks,          \* the _generate_image coroutines of the turn, by position
    results,        \* what asyncio.gather returned, by position
    image_status,   \* the "Imagen X" lines of the turn
    generated_paths,\* the path taken from each result, or NoPath
    consistency_status, \* the "Consistencia X" lines of the turn
    cursor,         \* the position the verification loop is at
    static,         \* files written to STATIC_DIR in this turn: path -> instruction
    named,          \* the counter values used in artifact names, in session order
    calls,          \* the external model calls of the current tool call, in order
    ret,            \* what the tool call returned or raised
    judge_reply,    \* the judge's reply to the _consistency_check in progress
    report,         \* the report _consistency_check returned last
    plan_reply,     \* the reply of the model asked to write the edit instructions
    compiled,       \* what the compiler made of it
    gcs_client,     \* gcs_storage._client: "unset" (None), "failed" (False), "ready"
    gcs_call,       \* the last call of upload_image and its outcome
    gen_result,     \* what _generate_image returned after that upload
    mem,            \* the memory store: Firestore client and documents, local files
    mem_call,       \* the last call of the memory store's API, and the sections saved so far
    engine          \* the Design Specification Engine: inventory, plans, feedback

vars == <<state, uploads, op, pc, image_prompts, tasks, results, image_status,
          generated_paths, consistency_status, cursor, static,
          named, calls, ret, judge_reply, report, plan_reply, compiled,
          gcs_client, gcs_call, gen_result, mem, mem_call, engine>>

(* The variables of the units that are exercised on their own *)
unitVars == <<plan_reply, compiled, gcs_client, gcs_call, gen_result, mem, mem_call, engine>>

-----------------------------------------------------------------------------
(* Bounds of the model *)

MaxTextLen == 4      \* tokens in a judge reply
MaxUploads == 2      \* upload turns of a session (_upload_version)
MaxImages == 2       \* images carried by one request
MaxGen == 4          \* generation calls of a session (_gen_version)
MaxBlocks == 3       \* blocks of lines in a reply of the plan model
MaxSaves == 3        \* calls of the memory store's API in a run
MaxRefines == 2      \* successful refinements of a session

(* count=3 of _ai_create_image_prompts and the [:3] of analyze_and_propose *)
PromptCount == 3

-----------------------------------------------------------------------------
(* The judge's reply and _consistency_check *)

Absent == [t |-> "absent", n |-> 0, items |-> <<>>]
JBool(b) == [t |-> IF b THEN "true" ELSE "false", n |-> 0, items |-> <<>>]
JInt(k) == [t |-> "int", n |-> k, items |-> <<>>]
JStr == [t |-> "str", n |-> 0, items |-> <<>>]
JNull == [t |-> "null", n |-> 0, items |-> <<>>]
JList(s) == [t |-> "list", n |-> 0, items |-> s]

(* JSON values a judge can put in the three fields *)
PassedValues == {Absent, JBool(TRUE), JBool(FALSE), JStr}
ScoreValues == {Absent, JInt(0), JInt(100), JInt(150), JStr}
IssuesValues == {Absent, JList(<<>>), JList(<<"issue1">>), JNull}

(* A decoded JSON document: an object with some of the fields, or any other value *)
JsonObjects ==
    [kind : {"object"}, passed : PassedValues, score : ScoreValues,
     issues : IssuesValues]
NonObject == [kind |-> "other", passed |-> Absent, score |-> Absent, issues |-> Absent]
JsonValues == JsonObjects \cup {NonObject}

(* response.text as tokens: a ``` fence, the word json, whitespace, any other
   text, and the JSON document *)
Tokens == {"FENCE", "JSONWORD", "WS", "JUNK", "VAL"}

RECURSIVE SeqsUpTo(_, _)
SeqsUpTo(S, n) ==
    IF n = 0 THEN {<<>>}
    ELSE LET shorter == SeqsUpTo(S, n - 1)
         IN shorter \cup {Append(s, x) : s \in {q \in shorter : Len(q) = n - 1}, x \in S}

RaiseReply == [kind |-> "raise", toks |-> <<>>, val |-> NonObject]
NoneReply == [kind |-> "none", toks |-> <<>>, val |-> NonObject]
TextReply(toks, val) == [kind |-> "text", toks |-> toks, val |-> val]

(* str.strip(): whitespace removed at both ends *)
RECURSIVE LStrip(_)
LStrip(s) == IF s # <<>> /\ Head(s) = "WS" THEN LStrip(Tail(s)) ELSE s

RECURSIVE RStrip(_)
RStrip(s) ==
    IF s # <<>> /\ s[Len(s)] = "WS" THEN RStrip(SubSeq(s, 1, Len(s) - 1)) ELSE s

Strip(s) == RStrip(LStrip(s))

HasFence(s) == \E i \in 1..Len(s) : s[i] = "FENCE"

FirstFence(s, from) ==
    IF \E i \in from..Len(s) : s[i] = "FENCE"
    THEN CHOOSE i \in from..Len(s) :
            s[i] = "FENCE" /\ \A j \in from..(i - 1) : s[j] # "FENCE"
    ELSE Len(s) + 1

(* text.split("```")[1]: what stands between the first fence and the next *)
SplitSecond(s) ==
    LET a == FirstFence(s, 1)
        b == FirstFence(s, a + 1)
    IN SubSeq(s, a + 1, b - 1)

(* tools.py 161-167: strip, take the fenced part, drop a leading "json", strip *)
ExtractJson(toks) ==
    LET text == Strip(toks)
    IN IF HasFence(text)
       THEN LET part == SplitSecond(text)
                body == IF part # <<>> /\ Head(part) = "JSONWORD"
                        THEN Tail(part) ELSE part
            IN Strip(body)
       ELSE text

(* json.loads: one JSON document, white space around it allowed *)
JsonDecodes(text) == Strip(text) = <<"VAL">>

Report(passed, score, issues) == [passed |-> passed, score |-> score, issues |-> issues]
NoReport == Report(Absent, Absent, Absent)

(* Mutant of FailOpenReport: the verifier fails closed *)
FailClosedReport == Report(JBool(FALSE), JInt(0), JList(<<"Check error">>))

(* tools.py 175-178: the except branch *)
FailOpenReport == Report(JBool(TRUE), JInt(-1), JList(<<"Check error">>))

(* dict.get(key, default) *)
Get(v, default) == IF v = Absent THEN default ELSE v

(* tools.py 169-174: the report built from the decoded object *)
ReportFromJudge(val) ==
    Report(Get(val.passed, JBool(FALSE)), Get(val.score, JInt(0)),
           Get(val.issues, JList(<<>>)))

(* tools.py 155-178 *)
_consistency_check(reply) ==
    IF reply.kind = "raise" THEN FailOpenReport
    ELSE IF reply.kind = "none" THEN FailOpenReport        \* None.strip()
    ELSE IF ~JsonDecodes(ExtractJson(reply.toks)) THEN FailOpenReport
    ELSE IF reply.val.kind # "object" THEN FailOpenReport  \* result.get on a non-dict
    ELSE ReportFromJudge(reply.val)


-----------------------------------------------------------------------------
(* Session state *)

NoPath == [v |-> -1, i |-> -1]
UploadPath(version, index) == [v |-> version, i |-> index]

(* Texts the plan models return, told apart by the upload they were made from
   (the version in the names of its images) and by the number of refinements *)
NoText == [kind |-> "none", src |-> -1, rev |-> 0]
Inventory(paths) == [kind |-> "inventory", src |-> paths[1].v, rev |-> 0]
Alternatives(inv) == [kind |-> "alternatives", src |-> inv.src, rev |-> 0]
UpdatedSpec(inv, cds) == [kind |-> "cds", src |-> cds.src, rev |-> cds.rev + 1]

(* Python truthiness of a text read from the state with default "" *)
Falsy(text) == text.kind = "none"

EmptyState ==
    [uploaded_images |-> <<>>, last_uploaded_image |-> NoPath, _upload_version |-> 0,
     element_inventory |-> NoText, design_alternatives |-> NoText,
     current_cds |-> NoText, refined_plan |-> NoText, workflow_phase |-> "none",
     _gen_version |-> 0]

(* os.path.exists on an uploaded image *)
Exists(p) == p \in uploads

Range(s) == {s[k] : k \in 1..Len(s)}

-----------------------------------------------------------------------------
(* The tasks of a turn *)

NoVersion == -1
Pending == [kind |-> "pending", path |-> NoVersion]
Raised == [kind |-> "error", path |-> NoVersion]
NoImageText == [kind |-> "noimage", path |-> NoVersion]
Edited(path) == [kind |-> "ok", path |-> path]

NewTask == [pc |-> "new", ver |-> NoVersion, res |-> Pending]

Positions == 1..Len(tasks)
Letter(idx) == <<"A", "B", "C">>[idx]

(* The event loop's thread is inside a synchronous genai call *)
LoopBlocked == \E j \in Positions : tasks[j].pc = "calling"

Call(kind, idx) == [kind |-> kind, idx |-> idx]

(* Mutant of NextGenVersion: the value read is not written back incremented *)
NextGenVersionStale(v) == v

(* tools.py 82-83: the counter read and written back, with no await between *)
NextGenVersion(v) == v + 1

(* Mutant of StateAfterNaming: the coroutine also records a phase in the state *)
StateAfterNamingAndPhase(st) ==
    [st EXCEPT !._gen_version = NextGenVersion(st._gen_version),
               !.workflow_phase = "generated"]

StateAfterNaming(st) ==
    [st EXCEPT !._gen_version = NextGenVersion(st._gen_version)]


-----------------------------------------------------------------------------
(* The Edit-Instruction Compiler, tools.py 458-569.  A text is a sequence of
   lines.  A line is one of the delimiters ===PROMPT_i=== (Pi) and ===FIN_i===
   (Fi), a line that starts with Prompt, PROMPT or Alternativa followed by one
   of A B C 1 2 3 (HDR), a line of more than 100 characters (LONG), a line of
   a few words (SHORT) or a blank line (EMPTY). *)

count == PromptCount

PromptLine(i) == <<"P1", "P2", "P3">>[i]
FinLine(i) == <<"F1", "F2", "F3">>[i]

LineLen(line) ==
    CASE line \in {"P1", "P2", "P3"} -> 14
      [] line \in {"F1", "F2", "F3"} -> 11
      [] line = "HDR" -> 13
      [] line = "SHORT" -> 20
      [] line = "LONG" -> 101
      [] OTHER -> 0

(* str.strip on a text: the blank lines at both ends go *)
RECURSIVE StripLines(_)
StripLines(text) ==
    IF text = <<>> THEN <<>>
    ELSE IF Head(text) = "EMPTY" THEN StripLines(Tail(text))
    ELSE IF text[Len(text)] = "EMPTY" THEN StripLines(SubSeq(text, 1, Len(text) - 1))
    ELSE text

(* len of a text: its lines and the newlines between them *)
RECURSIVE TextLen(_)
TextLen(text) ==
    IF text = <<>> THEN 0
    ELSE LineLen(Head(text)) + (IF Len(text) > 1 THEN 1 ELSE 0) + TextLen(Tail(text))

Min(S) == CHOOSE x \in S : \A y \in S : x <= y

(* tools.py 514-515: where ===PROMPT_i===\s*\n(.*?)\n===FIN_i=== matches.  The
   group lies between two newlines, so the closing delimiter is at least two
   lines below the opening one; the leftmost opening delimiter that has such
   a closing delimiter is taken, with the nearest one. *)
Closers(text, i, a) == {b \in (a + 2)..Len(text) : text[b] = FinLine(i)}

Openers(text, i) ==
    {a \in 1..Len(text) : text[a] = PromptLine(i) /\ Closers(text, i, a) # {}}

Matches(text, i) == Openers(text, i) # {}

(* tools.py 517: match.group(1).strip() *)
Group(text, i) ==
    LET a == Min(Openers(text, i))
        b == Min(Closers(text, i, a))
    IN StripLines(SubSeq(text, a + 1, b - 1))

(* tools.py 512-517 *)
RECURSIVE StrictFrom(_, _)
StrictFrom(text, i) ==
    IF i > count THEN <<>>
    ELSE (IF Matches(text, i) THEN <<Group(text, i)>> ELSE <<>>)
         \o StrictFrom(text, i + 1)

StrictPrompts(text) == StrictFrom(text, 1)

(* tools.py 525: re.split before every header line that follows a newline *)
RECURSIVE SplitFrom(_, _)
SplitFrom(text, a) ==
    IF a > Len(text) THEN <<>>
    ELSE LET headers == {k \in (a + 1)..Len(text) : text[k] = "HDR"}
             e == IF headers = {} THEN Len(text) + 1 ELSE Min(headers)
         IN <<SubSeq(text, a, e - 1)>> \o SplitFrom(text, e)

sections(text) == SplitFrom(text, 1)

FirstN(seq, n) == SubSeq(seq, 1, IF Len(seq) < n THEN Len(seq) ELSE n)

(* tools.py 526 *)
RECURSIVE LongStripped(_)
LongStripped(secs) ==
    IF secs = <<>> THEN <<>>
    ELSE (IF TextLen(StripLines(Head(secs))) > 100
          THEN <<StripLines(Head(secs))>> ELSE <<>>)
         \o LongStripped(Tail(secs))

HeuristicPrompts(text) == FirstN(LongStripped(sections(text)), count)

(* tools.py 520-526 *)
AfterFallback(text, prompts) ==
    IF Len(prompts) < count THEN HeuristicPrompts(text) ELSE prompts

(* A compiler without the last fallback *)
NoUltimateFallback(text, prompts) == prompts

(* tools.py 529-531 *)
UltimateFallback(text, prompts) ==
    IF Len(prompts) < 1 THEN <<text>> ELSE prompts

(* An instruction without the addendum *)
BareInstruction(p) == <<"PREFIX">> \o p

(* tools.py 535 and 569: the f-string around a prompt *)
Instruction(p) == <<"PREFIX">> \o p \o <<"CONSISTENCY_RULES">>

(* The reply of the plan model: the call raises, the response has no text
   (response.text is None), or it has a text *)
NoPlan == [kind |-> "nocall", text |-> <<>>]
PlanRaises == [kind |-> "raise", text |-> <<>>]
PlanNone == [kind |-> "none", text |-> <<>>]
PlanText(text) == [kind |-> "text", text |-> text]

NotCompiled == [by |-> "none", raised |-> "none", prompts |-> <<>>]
CompilerRaised(by, where) == [by |-> by, raised |-> where, prompts |-> <<>>]
CompilerReturned(by, prompts) == [by |-> by, raised |-> "none", prompts |-> prompts]

(* tools.py 508-537.  re.search on None raises TypeError at line 515 *)
_ai_create_image_prompts(reply) ==
    IF reply.kind = "raise" THEN CompilerRaised("proposals", "call")
    ELSE IF reply.kind = "none" THEN CompilerRaised("proposals", "parse")
    ELSE LET text == reply.text
             prompts == UltimateFallback(text,
                            AfterFallback(text, StrictPrompts(text)))
         IN CompilerReturned("proposals",
                [k \in 1..Len(prompts) |-> Instruction(prompts[k])])

(* tools.py 568-569.  None is formatted as the word None *)
_ai_create_refined_image_prompt(reply) ==
    IF reply.kind = "raise" THEN CompilerRaised("refined", "call")
    ELSE CompilerReturned("refined",
            <<Instruction(IF reply.kind = "none" THEN <<"NONE">> ELSE reply.text)>>)

-----------------------------------------------------------------------------
(* Object storage, gcs_storage.py 12-65 *)

NoUrl == [kind |-> "none", folder |-> "", name |-> NoVersion]
PublicUrl(gcs_folder, name) == [kind |-> "url", folder |-> gcs_folder, name |-> name]
UploadRaised == [kind |-> "raised", folder |-> "", name |-> NoVersion]

Extensions == {".png", ".jpg", ".jpeg", ".webp", ".bin"}

(* gcs_storage.py 50-57 *)
ContentType(ext) ==
    CASE ext = ".png" -> "image/png"
      [] ext \in {".jpg", ".jpeg"} -> "image/jpeg"
      [] ext = ".webp" -> "image/webp"
      [] OTHER -> "application/octet-stream"

(* gcs_storage.py 15-29: the client is made at the first call; a failure is
   remembered and not retried *)
_get_client(client, init_fails) ==
    IF client = "unset"
    THEN (IF init_fails THEN "failed" ELSE "ready")
    ELSE client

(* An upload whose errors are not caught *)
UploadErrorRaised(fault) == UploadRaised

(* gcs_storage.py 63-65 *)
UploadErrorCaught(fault) == NoUrl

(* gcs_storage.py 39-65.  fault: "none", "bucket" (client.bucket or
   bucket.blob raises), "upload" (upload_from_filename raises) *)
upload_image(client, fault, name, gcs_folder) ==
    IF client # "ready" THEN NoUrl
    ELSE IF fault # "none" THEN UploadErrorCaught(fault)
    ELSE PublicUrl(gcs_folder, name)

NoUpload ==
    [name |-> NoVersion, ext |-> "", folder |-> "", fault |-> "none",
     content_type |-> "", url |-> NoUrl]

-----------------------------------------------------------------------------
(* The memory store, memory_store.py.  A record is a dict, modelled as a
   function from its keys.  Ids and file stems are sequences of pieces, "__"
   being the separator piece.  The local files are taken to be readable and
   writable; every cloud call can fail. *)

EmptyDict == [key \in {} |-> ""]

(* dict.update, and Firestore's set(merge=True) on flat fields *)
Updated(existing, data) == data @@ existing

DictGet(d, key, default) == IF key \in DOMAIN d THEN d[key] ELSE default

(* memory_store.py 53-58: the stem of the local file *)
_local_path(project_id, section_id) ==
    IF section_id # <<>> THEN project_id \o <<"__">> \o section_id ELSE project_id

(* memory_store.py 61-68 *)
_read_local(local, path) == IF path \in DOMAIN local THEN local[path] ELSE EmptyDict

(* memory_store.py 71-79 *)
_write_local(local, path, data) == (path :> data) @@ local

(* The outcome of one use of the cloud: "nocloud" (_get_firestore returned
   None, memory_store.py 33-50), "raise" (the call raised), "ok" *)
CloudOutcomes == {"nocloud", "raise", "ok"}

(* memory_store.py 36-37: a client once made is kept *)
ClientAfter(client, outcome) == IF outcome = "nocloud" THEN client ELSE "ready"

Reachable(client, outcome) == client = "ready" => outcome # "nocloud"

(* Firestore's set(data, merge=True) on a project document: the map
   sections_overview is merged entry by entry *)
MergedProject(old, data) ==
    IF "sections_overview" \in DOMAIN data /\ "sections_overview" \in DOMAIN old
    THEN ("sections_overview" :> (data.sections_overview @@ old.sections_overview))
         @@ data @@ old
    ELSE data @@ old

(* memory_store.py 85-96 *)
get_project_memory(m, project_id, read) ==
    IF read = "ok" /\ project_id \in DOMAIN m.projects
    THEN m.projects[project_id]
    ELSE _read_local(m.local, _local_path(project_id, <<>>))

(* memory_store.py 99-110 *)
save_project_memory(m, project_id, data, write) ==
    LET path == _local_path(project_id, <<>>)
    IN [m EXCEPT
          !.client = ClientAfter(m.client, write),
          !.projects = IF write = "ok"
                       THEN (project_id :>
                               MergedProject(DictGet(m.projects, project_id, EmptyDict), data))
                            @@ m.projects
                       ELSE m.projects,
          !.local = _write_local(m.local, path, Updated(_read_local(m.local, path), data))]

(* memory_store.py 113-134 *)
get_section_memory(m, project_id, section_id, read) ==
    IF read = "ok" /\ <<project_id, section_id>> \in DOMAIN m.sections
    THEN m.sections[<<project_id, section_id>>]
    ELSE _read_local(m.local, _local_path(project_id, section_id))

(* memory_store.py 181-184 and 193-196 *)
OverviewEntry(sec_data) ==
    [type |-> DictGet(sec_data, "type", "otro"),
     style_summary |-> DictGet(sec_data, "style_summary", "")]

(* memory_store.py 173-184: the section documents under the project *)
CloudOverview(m, project_id) ==
    LET ids == {d[2] : d \in {e \in DOMAIN m.sections : e[1] = project_id}}
    IN [id \in ids |-> OverviewEntry(m.sections[<<project_id, id>>])]

IsPrefix(a, b) == Len(a) <= Len(b) /\ SubSeq(b, 1, Len(a)) = a

(* memory_store.py 191: f.stem.split("__", 1)[1] if "__" in f.stem else f.stem *)
SectionOfStem(stem) ==
    LET seps == {k \in 1..Len(stem) : stem[k] = "__"}
    IN IF seps = {} THEN stem
       ELSE SubSeq(stem, (CHOOSE k \in seps : \A j \in seps : k <= j) + 1, Len(stem))

(* memory_store.py 190-196: the files project_id__*.json *)
LocalOverview(m, project_id) ==
    LET files == {f \in DOMAIN m.local : IsPrefix(project_id \o <<"__">>, f)}
        ids == {SectionOfStem(f) : f \in files}
    IN [id \in ids |->
          OverviewEntry(m.local[CHOOSE f \in files : SectionOfStem(f) = id])]

(* memory_store.py 167-196: the cloud's sections when the listing worked and
   gave any, else the local files *)
SectionsOverview(m, project_id, read) ==
    IF read = "ok" /\ DOMAIN CloudOverview(m, project_id) # {}
    THEN CloudOverview(m, project_id)
    ELSE LocalOverview(m, project_id)

(* memory_store.py 165-199 *)
_update_project_sections_overview(m, project_id, read, write) ==
    save_project_memory([m EXCEPT !.client = ClientAfter(m.client, read)], project_id,
        [sections_overview |-> SectionsOverview(m, project_id, read)], write)

(* memory_store.py 137-162 *)
save_section_memory(m, project_id, section_id, data, write, read, write_project) ==
    LET path == _local_path(project_id, section_id)
        key == <<project_id, section_id>>
        saved == [m EXCEPT
                    !.client = ClientAfter(m.client, write),
                    !.sections = IF write = "ok"
                                 THEN (key :> Updated(DictGet(m.sections, key, EmptyDict), data))
                                      @@ m.sections
                                 ELSE m.sections,
                    !.local = _write_local(m.local, path,
                                           Updated(_read_local(m.local, path), data))]
    IN _update_project_sections_overview(saved, project_id, read, write_project)

EmptyMemory ==
    [client |-> "unset", projects |-> EmptyDict, sections |-> EmptyDict,
     local |-> EmptyDict, n |-> 0]

NoMemoryCall ==
    [op |-> "none", project_id |-> <<>>, section_id |-> <<>>, data |-> EmptyDict,
     write |-> "nocloud", saved |-> {}]

-----------------------------------------------------------------------------
(* The Design Specification Engine, tools.py 321-425 and 572-645.  The text
   the plan model returns is read here as a specification: a treatment for
   each element identifier it lists.  The prompts ask the model for
   completeness, inheritance, uniformity and the keeping of the pool and the
   vegetation; the code returns response.text as it came. *)

Elements == {"pool", "wall_low", "wall_high"}
Protected == {"pool"}
ExtraIds == {"shed"}
Treatments == {"keep", "paint"}

(* The repeated structural group an element belongs to: the floors of a wall *)
GroupOf(e) == IF e \in {"wall_low", "wall_high"} THEN {"wall_low", "wall_high"} ELSE {e}

Specifications == UNION {[ids -> Treatments] : ids \in SUBSET (Elements \cup ExtraIds)}

NoSpecification == [kind |-> "none", treat |-> EmptyDict]
Specification(treat) == [kind |-> "cds", treat |-> treat]

(* tools.py 424-425: return response.text *)
_ai_generate_cds_alternatives(inventory, reply) == reply

(* tools.py 644-645: return response.text *)
_ai_update_design_spec(inventory, current_cds, user_feedback, reply) == reply

NoFeedback == [target |-> "", scoped |-> FALSE, choice |-> 0]

NoEngine ==
    [inventory |-> {}, design_alternatives |-> <<>>, current_cds |-> NoSpecification,
     user_feedback |-> NoFeedback, n |-> 0]

-----------------------------------------------------------------------------
(* Return values *)

NoReturn == [kind |-> "none", cause |-> "none"]
Returned(kind) == [kind |-> kind, cause |-> "none"]
(* An exception that is caught and turned into a returned text *)
Swallowed(cause) == [kind |-> "error", cause |-> cause]

(* An exception that leaves the tool *)
Propagated(cause) == [kind |-> "raised", cause |-> cause]

NoReply == [kind |-> "nocall", toks |-> <<>>, val |-> NonObject]

turnVars == <<image_prompts, tasks, results, image_status, generated_paths,
              consistency_status, cursor, static>>

ClearTurn ==
    /\ image_prompts' = <<>>
    /\ tasks' = <<>>
    /\ results' = <<>>
    /\ image_status' = <<>>
    /\ generated_paths' = <<>>
    /\ consistency_status' = <<>>
    /\ cursor' = 0
    /\ static' = {}

Init ==
    /\ state = EmptyState
    /\ uploads = {}
    /\ op = "idle"
    /\ pc = "idle"
    /\ image_prompts = <<>>
    /\ tasks = <<>>
    /\ results = <<>>
    /\ image_status = <<>>
    /\ generated_paths = <<>>
    /\ consistency_status = <<>>
    /\ cursor = 0
    /\ static = {}
    /\ named = <<>>
    /\ calls = <<>>
    /\ ret = NoReturn
    /\ judge_reply = NoReply
    /\ report = NoReport
    /\ plan_reply = NoPlan
    /\ compiled = NotCompiled
    /\ gcs_client = "unset"
    /\ gcs_call = NoUpload
    /\ gen_result = Pending
    /\ mem = EmptyMemory
    /\ mem_call = NoMemoryCall
    /\ engine = NoEngine

-----------------------------------------------------------------------------
(* agent.py 80-132: the before-model callback saves the images of the request.
   The keys _user_id, _session_id and gcs_upload_urls, which no tool reads back
   into a decision, are left out of the state. *)

SavedImages(version, k) == [idx \in 1..k |-> UploadPath(version, idx - 1)]

(* A callback that appends the images of this run to those of earlier turns *)
StateAfterUploadAppended(st, current_turn_images) ==
    LET all == st.uploaded_images \o current_turn_images
    IN [st EXCEPT !._upload_version = st._upload_version + 1,
                  !.uploaded_images = all,
                  !.last_uploaded_image = all[Len(all)]]

(* agent.py 124-128 *)
StateAfterUpload(st, current_turn_images) ==
    [st EXCEPT !._upload_version = st._upload_version + 1,
               !.uploaded_images = current_turn_images,
               !.last_uploaded_image = current_turn_images[Len(current_turn_images)]]

_persist_uploaded_images(k) ==
    LET version == state._upload_version
        current_turn_images == SavedImages(version, k)
    IN /\ op = "idle"
       /\ k > 0 => version < MaxUploads
       /\ IF k > 0
          THEN /\ state' = StateAfterUpload(state, current_turn_images)
               /\ uploads' = Range(current_turn_images)
          ELSE UNCHANGED <<state, uploads>>
       /\ UNCHANGED <<unitVars, op, pc, turnVars, named, calls, ret, judge_reply, report>>

(* An uploaded file disappears from the uploads directory between turns *)
FileRemoved(p) ==
    /\ op = "idle"
    /\ p \in uploads
    /\ uploads' = uploads \ {p}
    /\ UNCHANGED <<unitVars, state, op, pc, turnVars, named, calls, ret, judge_reply, report>>


-----------------------------------------------------------------------------
(* tools.py 648-699: analyze_and_propose up to its await of asyncio.gather.
   Every call before the gather is synchronous, so this is one step. *)

(* tools.py 664-667 and 807-812: the images the tool works on, and the base image *)
UploadedImages(st) ==
    IF st.uploaded_images = <<>> /\ st.last_uploaded_image # NoPath
    THEN <<st.last_uploaded_image>>
    ELSE st.uploaded_images

PrimaryImage ==
    IF state.uploaded_images # <<>> THEN state.uploaded_images[1]
    ELSE state.last_uploaded_image

(* Mutant of NoImageFound: only the emptiness of the list is looked at *)
NoImageListed(st) == UploadedImages(st) = <<>>

(* tools.py 668 *)
NoImageFound(st) ==
    \/ UploadedImages(st) = <<>>
    \/ ~\E p \in Range(UploadedImages(st)) : Exists(p)

(* tools.py 303-304: the text returned in place of an inventory *)
NoValidImagesText == [kind |-> "error_text", src |-> -1, rev |-> 0]

(* tools.py 245-318: the inventory the vision model writes for the images given
   that exist, or the error text when none of them exists *)
_vision_inventory(image_paths) ==
    IF \E p \in Range(image_paths) : Exists(p)
    THEN Inventory(image_paths)
    ELSE NoValidImagesText

(* tools.py 684-686 *)
StateAfterAnalysis(st, inventory, alternatives) ==
    [st EXCEPT !.element_inventory = inventory,
               !.design_alternatives = alternatives,
               !.workflow_phase = "alternatives_shown"]

StartTurn(name) ==
    /\ op = "idle"
    /\ op' = name
    /\ UNCHANGED <<unitVars, uploads, named, judge_reply, report>>

analyze_and_propose ==
    /\ StartTurn("analyze")
    /\ state._gen_version + PromptCount <= MaxGen
    /\ IF NoImageFound(state)
       THEN /\ pc' = "returned"
            /\ ret' = Returned("error_no_image")
            /\ calls' = <<>>
            /\ UNCHANGED <<state, turnVars>>
       ELSE LET inventory == _vision_inventory(UploadedImages(state))
                alternatives == Alternatives(inventory)
            IN \/ /\ pc' = "raised"            \* _vision_inventory raises
                  /\ ret' = Propagated("vision")
                  /\ calls' = <<Call("vision", 0)>>
                  /\ UNCHANGED <<state, turnVars>>
               \/ /\ pc' = "raised"            \* _ai_generate_cds_alternatives raises
                  /\ ret' = Propagated("alternatives")
                  /\ calls' = <<Call("vision", 0), Call("alternatives", 0)>>
                  /\ UNCHANGED <<state, turnVars>>
               \/ /\ pc' = "raised"            \* _ai_create_image_prompts raises
                  /\ ret' = Propagated("compile")
                  /\ calls' = <<Call("vision", 0), Call("alternatives", 0),
                                Call("compile", 0)>>
                  /\ state' = StateAfterAnalysis(state, inventory, alternatives)
                  /\ UNCHANGED turnVars
               \/ \E n \in 1..PromptCount :    \* the compiler returned n instructions
                  /\ pc' = "gather"
                  /\ ret' = NoReturn
                  /\ calls' = <<Call("vision", 0), Call("alternatives", 0),
                                Call("compile", 0)>>
                  /\ state' = StateAfterAnalysis(state, inventory, alternatives)
                  /\ image_prompts' = [idx \in 1..n |-> idx]
                  /\ tasks' = [idx \in 1..n |-> NewTask]
                  /\ UNCHANGED <<results, image_status, generated_paths,
                                 consistency_status, cursor, static>>

-----------------------------------------------------------------------------
(* tools.py 759-815: refine_and_generate up to its await of _generate_image *)

(* Mutant of NoInventory: the early return is missing *)
NoInventoryUnchecked(st) == FALSE

(* tools.py 782 *)
NoInventory(st) == Falsy(st.element_inventory)

(* A refinement that also stores its plan as the inventory *)
StateAfterRefinementAll(st, refined) ==
    [st EXCEPT !.current_cds = refined,
               !.refined_plan = refined,
               !.workflow_phase = "refined",
               !.element_inventory = refined]

StateAfterRefinementLate(st, refined) == st

(* tools.py 798-800 *)
StateAfterRefinement(st, refined) ==
    [st EXCEPT !.current_cds = refined,
               !.refined_plan = refined,
               !.workflow_phase = "refined"]

refine_and_generate ==
    /\ StartTurn("refine")
    /\ IF NoInventory(state)
       THEN /\ pc' = "returned"
            /\ ret' = Returned("error_no_inventory")
            /\ calls' = <<>>
            /\ UNCHANGED <<state, turnVars>>
       ELSE LET inventory == state.element_inventory
                current_cds == IF Falsy(state.current_cds)
                               THEN state.design_alternatives
                               ELSE state.current_cds
                refined == UpdatedSpec(inventory, current_cds)
            IN /\ state._gen_version + 1 <= MaxGen
               /\ current_cds.rev < MaxRefines
               /\ \/ /\ pc' = "raised"          \* _ai_update_design_spec raises
                     /\ ret' = Propagated("update_spec")
                     /\ calls' = <<Call("update_spec", inventory.src)>>
                     /\ UNCHANGED <<state, turnVars>>
                  \/ /\ pc' = "raised"          \* _ai_create_refined_image_prompt raises
                     /\ ret' = Propagated("refined_prompt")
                     /\ calls' = <<Call("update_spec", inventory.src), Call("refined_prompt", inventory.src)>>
                     /\ state' = StateAfterRefinement(state, refined)
                     /\ UNCHANGED turnVars
                  \/ /\ pc' = "generate"
                     /\ ret' = NoReturn
                     /\ calls' = <<Call("update_spec", inventory.src), Call("refined_prompt", inventory.src)>>
                     /\ state' = StateAfterRefinement(state, refined)
                     /\ image_prompts' = <<1>>
                     /\ tasks' = <<NewTask>>
                     /\ UNCHANGED <<results, image_status, generated_paths,
                                    consistency_status, cursor, static>>


-----------------------------------------------------------------------------
(* tools.py 57-118: _generate_image, one coroutine per instruction.  It runs
   from its start to `await tool_context.save_artifact` without giving up the
   event loop: the image is loaded, the request is sent with the synchronous
   client and the loop waits for it, the counter is read and written back, the
   file is written.  After the await it uploads and returns. *)

Generating == pc \in {"gather", "generate"}

Finished(i, result) ==
    tasks' = [tasks EXCEPT ![i].pc = "done", ![i].res = result]

(* tools.py 61-70: the request is sent.  asyncio starts the coroutines of a
   gather in the order they were given. *)
SendRequest(i) ==
    /\ Generating
    /\ tasks[i].pc = "new"
    /\ \A j \in 1..(i - 1) : tasks[j].pc # "new"
    /\ ~LoopBlocked
    /\ IF Exists(PrimaryImage)
       THEN /\ tasks' = [tasks EXCEPT ![i].pc = "calling"]
            /\ calls' = Append(calls, Call("image", i))
       ELSE /\ Finished(i, Raised)              \* _load_image: no such file
            /\ UNCHANGED calls
    /\ UNCHANGED <<unitVars, state, uploads, op, pc, image_prompts, results, image_status,
                   generated_paths, consistency_status, cursor, static, named,
                   ret, judge_reply, report>>

(* tools.py 82-87: the artifact is named with the counter value read *)
Naming(i) ==
    /\ state' = StateAfterNaming(state)
    /\ named' = Append(named, state._gen_version)
    /\ calls' = Append(calls, Call("filename", i))

(* tools.py 91-92: the file is written under the name *)
Written(files, path, i) ==
    {f \in files : f.path # path} \cup {[path |-> path, instr |-> i]}

(* tools.py 67-99 and 116-118: the request returns *)
RequestReturns(i) ==
    /\ Generating
    /\ tasks[i].pc = "calling"
    /\ \/ /\ Finished(i, Raised)                \* generate_content raises
          /\ UNCHANGED <<state, named, calls, static>>
       \/ /\ Naming(i)                          \* a response with no candidates
          /\ tasks' = [tasks EXCEPT ![i].pc = "done", ![i].res = Raised,
                                    ![i].ver = state._gen_version]
          /\ UNCHANGED static
       \/ /\ Naming(i)                          \* a response with no image part
          /\ tasks' = [tasks EXCEPT ![i].pc = "done", ![i].res = NoImageText,
                                    ![i].ver = state._gen_version]
          /\ UNCHANGED static
       \/ /\ Naming(i)                          \* an image: written, then the await
          /\ tasks' = [tasks EXCEPT ![i].pc = "saving",
                                    ![i].ver = state._gen_version]
          /\ static' = Written(static, state._gen_version, i)
    /\ UNCHANGED <<unitVars, uploads, op, pc, image_prompts, results, image_status,
                   generated_paths, consistency_status, cursor, ret,
                   judge_reply, report>>

(* tools.py 99-114: save_artifact is done (or raised); the upload gives a URL
   or None, which only adds a line to the text; the text with the local path
   is returned *)
ResumeTask(i) ==
    /\ Generating
    /\ tasks[i].pc = "saving"
    /\ ~LoopBlocked
    /\ \/ Finished(i, Raised)
       \/ Finished(i, Edited(tasks[i].ver))
    /\ UNCHANGED <<unitVars, state, uploads, op, pc, image_prompts, results, image_status,
                   generated_paths, consistency_status, cursor, static, named,
                   calls, ret, judge_reply, report>>

-----------------------------------------------------------------------------
(* tools.py 699-713: the gather returns and the status lines are built *)

(* Mutant of GatherDone: the wait ends with the first coroutine that finishes *)
GatherDoneFirst(ts) == \E i \in 1..Len(ts) : ts[i].pc = "done"

(* asyncio.gather waits for every awaitable *)
GatherDone(ts) == \A i \in 1..Len(ts) : ts[i].pc = "done"

(* Mutant of Gather: the failures are moved behind the other results *)
GatherFailuresLast(ts) ==
    LET all == [idx \in 1..Len(ts) |-> ts[idx].res]
    IN [raised |-> FALSE,
        results |-> SelectSeq(all, LAMBDA r : r.kind # "error")
                        \o SelectSeq(all, LAMBDA r : r.kind = "error")]

(* asyncio.gather with return_exceptions=True: the results in the order of
   the awaitables, an exception standing as the result of its coroutine *)
Gather(ts) ==
    [raised |-> FALSE, results |-> [idx \in 1..Len(ts) |-> ts[idx].res]]

(* tools.py 705-710 *)
StatusLine(idx, result) == [letter |-> Letter(idx), ok |-> result.kind # "error"]

(* tools.py 708, 712-713: the path between backquotes after "Local file" *)
PathOf(result) == IF result.kind = "ok" THEN result.path ELSE NoVersion

Gathered ==
    /\ op = "analyze"
    /\ pc = "gather"
    /\ GatherDone(tasks)
    /\ LET g == Gather(tasks)
       IN IF g.raised
          THEN /\ pc' = "raised"
               /\ ret' = Propagated("generation")
               /\ UNCHANGED <<results, image_status, generated_paths, cursor>>
          ELSE /\ pc' = "verify"
               /\ results' = g.results
               /\ image_status' =
                     [idx \in 1..Len(g.results) |-> StatusLine(idx, g.results[idx])]
               /\ generated_paths' =
                     [idx \in 1..Len(g.results) |-> PathOf(g.results[idx])]
               /\ cursor' = 1
               /\ UNCHANGED ret
    /\ UNCHANGED <<unitVars, state, uploads, op, image_prompts, tasks, consistency_status,
                   static, named, calls, judge_reply, report>>


-----------------------------------------------------------------------------
(* tools.py 715-756: the verification loop and the return *)

(* The judge's replies in a turn: one that raises, a bare passing report, a
   fenced failing report, a failing report whose issues are null *)
JudgeObject(passed, score, issues) ==
    [kind |-> "object", passed |-> passed, score |-> score, issues |-> issues]

JudgeRepliesOfTurn ==
    {RaiseReply,
     TextReply(<<"VAL">>, JudgeObject(JBool(TRUE), JInt(95), JList(<<>>))),
     TextReply(<<"FENCE", "JSONWORD", "VAL", "FENCE">>,
               JudgeObject(JBool(FALSE), JInt(0), JList(<<"issue1">>))),
     TextReply(<<"VAL">>, JudgeObject(JBool(FALSE), JInt(0), JNull))}

(* Python truthiness of a decoded JSON value *)
Truthy(v) ==
    \/ v.t \in {"true", "str"}
    \/ v.t = "int" /\ v.n # 0
    \/ v.t = "list" /\ v.items # <<>>

(* tools.py 730: "; ".join(check["issues"][:3]) wants a list of strings or a string *)
Joinable(v) == v.t \in {"list", "str"}

(* os.path.exists on a generated file *)
FileAt(path) == \E f \in static : f.path = path

(* tools.py 724-733 *)
ConsistencyLine(idx, path, check) ==
    [letter |-> Letter(idx), path |-> path, passed |-> Truthy(check.passed),
     score |-> check.score]

ConsistencyCheck ==
    /\ op = "analyze"
    /\ pc = "verify"
    /\ cursor \in 1..Len(generated_paths)
    /\ LET gen_path == generated_paths[cursor]
       IN IF gen_path = NoVersion \/ ~FileAt(gen_path)
          THEN /\ cursor' = cursor + 1
               /\ UNCHANGED <<pc, consistency_status, calls, ret, judge_reply, report>>
          ELSE \E reply \in JudgeRepliesOfTurn :
               LET check == _consistency_check(reply)
               IN /\ judge_reply' = reply
                  /\ report' = check
                  /\ calls' = Append(calls, Call("judge", cursor))
                  /\ IF Truthy(check.passed) \/ Joinable(check.issues)
                     THEN /\ consistency_status' =
                                Append(consistency_status,
                                       ConsistencyLine(cursor, gen_path, check))
                          /\ cursor' = cursor + 1
                          /\ UNCHANGED <<pc, ret>>
                     ELSE /\ pc' = "raised"     \* TypeError formatting the issues
                          /\ ret' = Propagated("report")
                          /\ UNCHANGED <<consistency_status, cursor>>
    /\ UNCHANGED <<unitVars, state, uploads, op, image_prompts, tasks, results, image_status,
                   generated_paths, static, named>>

(* tools.py 749-756 *)
AnalyzeReturns ==
    /\ op = "analyze"
    /\ pc = "verify"
    /\ cursor > Len(generated_paths)
    /\ pc' = "returned"
    /\ ret' = Returned("proposal")
    /\ UNCHANGED <<unitVars, state, uploads, op, turnVars, named, calls, judge_reply, report>>

(* tools.py 814-828: the awaited _generate_image returned or raised *)
RefineReturns ==
    /\ op = "refine"
    /\ pc = "generate"
    /\ tasks[1].pc = "done"
    /\ image_status' = <<[letter |-> "refined", ok |-> tasks[1].res.kind # "error"]>>
    /\ pc' = "returned"
    /\ ret' = Returned("refined")
    /\ UNCHANGED <<unitVars, state, uploads, op, image_prompts, tasks, results, generated_paths,
                   consistency_status, cursor, static, named, calls,
                   judge_reply, report>>

(* The tool call is over: its result went to the agent, its locals are gone *)
Finish ==
    /\ pc \in {"returned", "raised"}
    /\ op' = "idle"
    /\ pc' = "idle"
    /\ ClearTurn
    /\ calls' = <<>>
    /\ ret' = NoReturn
    /\ judge_reply' = NoReply
    /\ report' = NoReport
    /\ UNCHANGED <<unitVars, state, uploads, named>>

-----------------------------------------------------------------------------

Next ==
    \/ \E k \in 0..MaxImages : _persist_uploaded_images(k)
    \/ \E p \in uploads : FileRemoved(p)
    \/ analyze_and_propose
    \/ refine_and_generate
    \/ \E i \in Positions : SendRequest(i)
    \/ \E i \in Positions : RequestReturns(i)
    \/ \E i \in Positions : ResumeTask(i)
    \/ Gathered
    \/ ConsistencyCheck
    \/ AnalyzeReturns
    \/ RefineReturns
    \/ Finish

Spec == Init /\ [][Next]_vars

-----------------------------------------------------------------------------
(* _consistency_check alone, over every reply of the judge within the bounds *)

JudgeTexts == SeqsUpTo(Tokens, MaxTextLen)

Judged(reply) ==
    /\ judge_reply' = reply
    /\ report' = _consistency_check(reply)

VerifierCalled ==
    /\ judge_reply = NoReply
    /\ \/ Judged(RaiseReply)
       \/ Judged(NoneReply)
       \/ \E toks \in JudgeTexts, val \in JsonValues : Judged(TextReply(toks, val))
    /\ UNCHANGED <<unitVars, state, uploads, op, pc, turnVars, named, calls, ret>>

VerifierIdle ==
    /\ judge_reply # NoReply
    /\ judge_reply' = NoReply
    /\ report' = NoReport
    /\ UNCHANGED <<unitVars, state, uploads, op, pc, turnVars, named, calls, ret>>

NextVerifier == VerifierCalled \/ VerifierIdle

SpecVerifier == Init /\ [][NextVerifier]_vars


-----------------------------------------------------------------------------
(* The compiler on its own, over the replies of the plan model *)

PlanBlocks ==
    {<<"P1", "LONG", "F1">>, <<"P2", "LONG", "F2">>, <<"P3", "SHORT", "F3">>,
     <<"P3", "EMPTY", "F3">>, <<"P1", "F1">>, <<"P2", "LONG">>,
     <<"HDR", "LONG">>, <<"HDR", "SHORT">>, <<"LONG">>, <<"SHORT">>, <<"EMPTY">>}

RECURSIVE Flatten(_)
Flatten(blocks) ==
    IF blocks = <<>> THEN <<>> ELSE Head(blocks) \o Flatten(Tail(blocks))

CompileProposals(reply) ==
    /\ plan_reply = NoPlan
    /\ plan_reply' = reply
    /\ compiled' = _ai_create_image_prompts(reply)
    /\ UNCHANGED <<state, uploads, op, pc, turnVars, named, calls, ret,
                   judge_reply, report, gcs_client, gcs_call, gen_result,
                   mem, mem_call, engine>>

CompileRefined(reply) ==
    /\ plan_reply = NoPlan
    /\ plan_reply' = reply
    /\ compiled' = _ai_create_refined_image_prompt(reply)
    /\ UNCHANGED <<state, uploads, op, pc, turnVars, named, calls, ret,
                   judge_reply, report, gcs_client, gcs_call, gen_result,
                   mem, mem_call, engine>>

CompilerIdle ==
    /\ plan_reply # NoPlan
    /\ plan_reply' = NoPlan
    /\ compiled' = NotCompiled
    /\ UNCHANGED <<state, uploads, op, pc, turnVars, named, calls, ret,
                   judge_reply, report, gcs_client, gcs_call, gen_result,
                   mem, mem_call, engine>>

NextCompiler ==
    \/ \E reply \in {PlanRaises, PlanNone} : CompileProposals(reply)
    \/ \E blocks \in SeqsUpTo(PlanBlocks, MaxBlocks) :
          CompileProposals(PlanText(Flatten(blocks)))
    \/ \E reply \in {PlanRaises, PlanNone} : CompileRefined(reply)
    \/ \E blocks \in SeqsUpTo(PlanBlocks, MaxBlocks) :
          CompileRefined(PlanText(Flatten(blocks)))
    \/ CompilerIdle

SpecCompiler == Init /\ [][NextCompiler]_vars

-----------------------------------------------------------------------------
(* Object storage on its own: uploads of generated and of uploaded images,
   with every failure of the cloud client *)

Faults == {"none", "bucket", "upload"}

(* tools.py 103-114: the result of _generate_image once the file is written
   and the artifact saved *)
ResultAfterUpload(path, url) ==
    IF url = UploadRaised THEN Raised ELSE Edited(path)

Upload(name, ext, folder, fault, init_fails) ==
    LET client == _get_client(gcs_client, init_fails)
        url == upload_image(client, fault, name, folder)
    IN /\ gcs_client' = client
       /\ gcs_call' = [name |-> name, ext |-> ext, folder |-> folder,
                       fault |-> fault, content_type |-> ContentType(ext),
                       url |-> url]
       /\ gen_result' = IF folder = "generated"
                        THEN ResultAfterUpload(name, url)
                        ELSE Pending
       /\ UNCHANGED <<state, uploads, op, pc, turnVars, named, calls, ret,
                      judge_reply, report, plan_reply, compiled,
                      mem, mem_call, engine>>

NextStorage ==
    \E name \in 0..MaxGen, ext \in Extensions, folder \in {"generated", "uploads"},
       fault \in Faults, init_fails \in BOOLEAN :
        Upload(name, ext, folder, fault, init_fails)

SpecStorage == Init /\ [][NextStorage]_vars

-----------------------------------------------------------------------------
(* The memory store on its own: saves of sections and of the project style,
   under every pattern of cloud availability and failure *)

ProjectIds == {<<"casa">>}
SectionIds == {<<"bano">>, <<"cocina">>}

SectionData ==
    {[style_summary |-> "v1"], [style_summary |-> "v2"],
     [type |-> "interior"], [type |-> "interior", style_summary |-> "v1"]}

ProjectData == {[style |-> "moderno"]}

(* The cloud outcomes of one API call, in order: a client that exists stays *)
Admissible(client, outcomes) ==
    /\ Reachable(client, outcomes[1])
    /\ \A k \in 2..Len(outcomes) :
          Reachable(ClientAfter(client, outcomes[k - 1]), outcomes[k])
          /\ (outcomes[k - 1] # "nocloud" => outcomes[k] # "nocloud")

SaveSection(project_id, section_id, data, write, read, write_project) ==
    /\ mem.n < MaxSaves
    /\ Admissible(mem.client, <<write, read, write_project>>)
    /\ mem' = [save_section_memory(mem, project_id, section_id, data,
                                   write, read, write_project)
                  EXCEPT !.n = mem.n + 1]
    /\ mem_call' = [op |-> "save_section", project_id |-> project_id,
                    section_id |-> section_id, data |-> data, write |-> write,
                    saved |-> mem_call.saved \cup {<<project_id, section_id>>}]
    /\ UNCHANGED <<state, uploads, op, pc, turnVars, named, calls, ret,
                   judge_reply, report, plan_reply, compiled,
                   gcs_client, gcs_call, gen_result, engine>>

SaveProject(project_id, data, write) ==
    /\ mem.n < MaxSaves
    /\ Admissible(mem.client, <<write>>)
    /\ mem' = [save_project_memory(mem, project_id, data, write) EXCEPT !.n = mem.n + 1]
    /\ mem_call' = [op |-> "save_project", project_id |-> project_id,
                    section_id |-> <<>>, data |-> data, write |-> write,
                    saved |-> mem_call.saved]
    /\ UNCHANGED <<state, uploads, op, pc, turnVars, named, calls, ret,
                   judge_reply, report, plan_reply, compiled,
                   gcs_client, gcs_call, gen_result, engine>>

NextMemory ==
    \/ \E project_id \in ProjectIds, section_id \in SectionIds, data \in SectionData,
          write \in CloudOutcomes, read \in CloudOutcomes, write_project \in CloudOutcomes :
          SaveSection(project_id, section_id, data, write, read, write_project)
    \/ \E project_id \in ProjectIds, data \in ProjectData, write \in CloudOutcomes :
          SaveProject(project_id, data, write)

SpecMemory == Init /\ [][NextMemory]_vars

(* The store with project ids of which one begins another, and with ids that
   contain the separator of the local file names *)
IsolationProjectIds == {<<"a">>, <<"a", "b">>, <<"a", "__", "b">>}
IsolationSectionIds == {<<"s">>, <<"b", "__", "s">>}

NextIsolation ==
    \E project_id \in IsolationProjectIds, section_id \in IsolationSectionIds,
       write \in CloudOutcomes, read \in CloudOutcomes, write_project \in CloudOutcomes :
       SaveSection(project_id, section_id, [type |-> "interior"], write, read, write_project)

SpecIsolation == Init /\ [][NextIsolation]_vars

-----------------------------------------------------------------------------
(* The engine on its own, over the specifications the plan model can write *)

CompleteSpec == [e \in Elements |-> IF e \in Protected THEN "keep" ELSE "paint"]
AllKept == [e \in Elements |-> "keep"]

AlternativesReplies ==
    {<<CompleteSpec, AllKept, third>> :
        third \in {CompleteSpec,
                   [e \in Elements \ {"wall_high"} |-> "paint"],
                   [e \in Elements \cup ExtraIds |-> "keep"],
                   [e \in Elements |-> "paint"]}}

Feedbacks ==
    [target : {"wall_low", "pool"}, scoped : BOOLEAN, choice : 1..PromptCount]

(* tools.py 680-686: the alternatives are stored; current_cds is not touched *)
Propose(reply) ==
    /\ engine' = [engine EXCEPT
                    !.inventory = Elements,
                    !.design_alternatives =
                        _ai_generate_cds_alternatives(Elements, reply)]
    /\ UNCHANGED <<state, uploads, op, pc, turnVars, named, calls, ret,
                   judge_reply, report, plan_reply, compiled,
                   gcs_client, gcs_call, gen_result, mem, mem_call>>

(* tools.py 789-790: what the refinement is given as the current plan; of the
   alternatives, the one the feedback chooses *)
PriorSpec(eng, user_feedback) ==
    IF eng.current_cds = NoSpecification
    THEN eng.design_alternatives[user_feedback.choice]
    ELSE eng.current_cds.treat

(* tools.py 778-800 *)
Refine(user_feedback, reply) ==
    /\ engine.inventory # {}
    /\ engine.n < MaxRefines
    /\ engine' = [engine EXCEPT
                    !.current_cds =
                        Specification(_ai_update_design_spec(engine.inventory,
                            PriorSpec(engine, user_feedback), user_feedback, reply)),
                    !.user_feedback = user_feedback,
                    !.n = engine.n + 1]
    /\ UNCHANGED <<state, uploads, op, pc, turnVars, named, calls, ret,
                   judge_reply, report, plan_reply, compiled,
                   gcs_client, gcs_call, gen_result, mem, mem_call>>

NextEngine ==
    \/ \E reply \in AlternativesReplies : Propose(reply)
    \/ \E user_feedback \in Feedbacks, reply \in Specifications :
          Refine(user_feedback, reply)

SpecEngine == Init /\ [][NextEngine]_vars

-----------------------------------------------------------------------------
(* Properties of the Consistency Verifier *)

JudgeFailed(reply) ==
    \/ reply.kind \in {"raise", "none"}
    \/ reply.kind = "text" /\ ~JsonDecodes(ExtractJson(reply.toks))

(* C1: when the judge call raises, or its text cannot be decoded as JSON,
   _consistency_check returns (it does not raise) the report passed = true,
   score = -1, with exactly one issue, which describes the error. *)
C1_FailOpen ==
    JudgeFailed(judge_reply) =>
        /\ report.passed = JBool(TRUE)
        /\ report.score = JInt(-1)
        /\ report.issues.t = "list"
        /\ Len(report.issues.items) = 1
        /\ report.issues.items[1] = "Check error"

(* C1 witness: a fenced reply whose fenced part is not a JSON document was
   checked and answered with the fail-open report *)
C1_Witness ==
    /\ judge_reply.kind = "text"
    /\ HasFence(judge_reply.toks)
    /\ ~JsonDecodes(ExtractJson(judge_reply.toks))
    /\ report = FailOpenReport

(* C2: every report has passed = true only with an empty issues list, and a
   score that is an integer in 0..100 or the sentinel -1. *)
C2_ReportShape ==
    report # NoReport =>
        /\ report.passed = JBool(TRUE) => report.issues = JList(<<>>)
        /\ report.score.t = "int"
        /\ report.score.n \in 0..100 \/ report.score.n = -1

-----------------------------------------------------------------------------
(* Properties of the fan-out of analyze_and_propose *)

AfterBarrier == op = "analyze" /\ pc \in {"verify", "returned"}

(* Every exception of a generation request is captured by the gather: there
   is one result and one status line per instruction, a request that raised is
   shown as failed and every other request as generated, and what leaves the
   tool after the gather, if anything, is not an exception of a request *)
GenerationFailuresCaptured ==
    /\ op = "analyze" => ret # Propagated("generation")
    /\ AfterBarrier =>
          /\ Len(results) = Len(image_prompts)
          /\ Len(image_status) = Len(image_prompts)
          /\ \A idx \in 1..Len(image_prompts) :
                IF tasks[idx].res.kind = "error"
                THEN results[idx] = Raised /\ ~image_status[idx].ok
                ELSE results[idx] = tasks[idx].res /\ image_status[idx].ok

(* C3: whatever subset of the N generation requests raises, the gather yields
   N results, each request that raised is a captured failure shown as such,
   every other request is shown as generated, and analyze_and_propose does
   not raise once the instructions are compiled. *)
C3_FanOutResilience ==
    /\ GenerationFailuresCaptured
    /\ op = "analyze" /\ tasks # <<>> => pc # "raised"

(* A turn of three instructions whose second request raised while the other
   two produced an image, and which returned to the user *)
FanOutWithFailureReturned ==
    /\ op = "analyze"
    /\ pc = "returned"
    /\ Len(tasks) = 3
    /\ tasks[2].res.kind = "error"
    /\ tasks[1].res.kind = "ok"
    /\ tasks[3].res.kind = "ok"
    /\ ~image_status[2].ok

(* C4: a response of the image model without an image payload is shown to the
   user as a failure, in analyze_and_propose and in refine_and_generate. *)
C4_NoImageIsFailure ==
    pc = "returned" =>
        \A idx \in 1..Len(tasks) :
            tasks[idx].res.kind = "noimage" =>
                idx <= Len(image_status) /\ ~image_status[idx].ok

(* C5: the status line and the consistency line lettered A, B, C describe the
   result of the instruction at position 1, 2, 3: the status line says whether
   that request raised, and the consistency line is about the file written for
   that instruction. *)
C5_PositionalAttribution ==
    AfterBarrier =>
        /\ \A idx \in 1..Len(image_prompts) :
              /\ image_status[idx].letter = Letter(idx)
              /\ image_status[idx].ok = (tasks[idx].res.kind # "error")
        /\ \A k \in 1..Len(consistency_status) :
              \E idx \in 1..Len(image_prompts) :
                 /\ consistency_status[k].letter = Letter(idx)
                 /\ tasks[idx].res = Edited(consistency_status[k].path)
                 /\ [path |-> consistency_status[k].path, instr |-> image_prompts[idx]]
                        \in static

(* C5 witness: the first request failed after the second had produced its
   image, and the consistency line of the turn is lettered B *)
C5_Witness ==
    /\ op = "analyze"
    /\ pc = "returned"
    /\ Len(tasks) >= 2
    /\ tasks[1].res.kind = "error"
    /\ tasks[1].ver # NoVersion
    /\ tasks[2].res.kind = "ok"
    /\ Len(consistency_status) >= 1
    /\ consistency_status[1].letter = "B"


-----------------------------------------------------------------------------
(* Properties of the scheduling of the generation requests *)

(* This step sends the request of position i to the image model *)
Sends(i) ==
    /\ i \in DOMAIN tasks
    /\ i \in DOMAIN tasks'
    /\ tasks[i].pc = "new"
    /\ tasks'[i].pc = "calling"

WasSent(i) == \E k \in 1..Len(calls) : calls[k] = Call("image", i)

(* C6: the requests of a turn are issued concurrently: when the request for
   instruction i+1 is sent, the request sent for instruction i has not yet
   returned. *)
C6_IssuedConcurrently ==
    [][\A i \in 1..(PromptCount - 1) :
          Sends(i + 1) /\ WasSent(i) => tasks[i].pc = "calling"]_vars

(* The requests of a turn never overlap: while one is with the image model,
   no other has been sent and not returned *)
RequestsNeverOverlap ==
    \A i, j \in Positions :
        tasks[i].pc = "calling" /\ tasks[j].pc = "calling" => i = j

JudgeCalled == \E k \in 1..Len(calls) : calls[k].kind = "judge"

(* C7: no consistency check is started and nothing is returned to the user
   before every generation request of the turn has finished, with an artifact
   or with a captured failure. *)
C7_FanInBarrier ==
    op = "analyze" /\ (pc \in {"verify", "returned"} \/ JudgeCalled) =>
        \A i \in Positions :
            /\ tasks[i].pc = "done"
            /\ tasks[i].res.kind \in {"ok", "noimage", "error"}

(* C7 witness: a consistency check was made in a turn of three requests, of
   which one failed and one produced an image *)
C7_Witness ==
    /\ op = "analyze"
    /\ pc = "verify"
    /\ JudgeCalled
    /\ Len(tasks) = 3
    /\ \E i, j \in Positions : tasks[i].res.kind = "error" /\ tasks[j].res.kind = "ok"

InFanOut == op = "analyze" /\ pc = "gather"

(* C8 as stated: between the start of the fan-out and the barrier no key of
   the session state is modified. *)
C8_TasksWriteNoState == [][InFanOut => state' = state]_vars

(* C8 amended: between the start of the fan-out and the barrier a generation
   task modifies no key of the session state other than _gen_version, which
   it increments when it names its artifact. *)
C8_TasksWriteOnlyCounter ==
    [][InFanOut =>
          /\ \A key \in DOMAIN state \ {"_gen_version"} : state'[key] = state[key]
          /\ state'._gen_version \in {state._gen_version, state._gen_version + 1}]_vars

(* C8 witness: in a fan-out still in progress one task has named its artifact
   and another has not started *)
C8_Witness ==
    /\ InFanOut
    /\ \E i, j \in Positions : tasks[i].ver # NoVersion /\ tasks[j].pc = "new"
    /\ state._gen_version > 0

(* C9: _gen_version never decreases, and no two generation calls of a session
   that reach the naming of their artifact get the same counter value. *)
C9_CounterValuesDistinct ==
    /\ [](\A a, b \in 1..Len(named) : a # b => named[a] # named[b])
    /\ [](\A i, j \in Positions :
            i # j /\ tasks[i].ver # NoVersion => tasks[i].ver # tasks[j].ver)
    /\ [][state'._gen_version >= state._gen_version]_vars

(* C9 witness: two coroutines of one fan-out hold a counter value while the
   first is still suspended at save_artifact, in a session that had named
   artifacts before *)
C9_Witness ==
    /\ InFanOut
    /\ \E i, j \in Positions :
          /\ i # j
          /\ tasks[i].pc = "saving"
          /\ tasks[j].ver # NoVersion
          /\ tasks[i].ver > 0
          /\ tasks[j].ver > 0
          /\ Len(named) > 2

(* C10: refine_and_generate in a session without inventory returns the
   'no prior inventory' error, calls no model and leaves the session state as
   it was. *)
C10_RefineNeedsInventory ==
    /\ [][op = "idle" /\ op' = "refine" /\ state.element_inventory = NoText =>
             /\ pc' = "returned"
             /\ ret' = Returned("error_no_inventory")
             /\ calls' = <<>>
             /\ tasks' = <<>>
             /\ state' = state]_vars
    /\ [](ret = Returned("error_no_inventory") => calls = <<>> /\ tasks = <<>>)

(* C10 witness: the error was returned in a session that has uploaded images
   but no inventory *)
C10_Witness ==
    /\ op = "refine"
    /\ ret = Returned("error_no_inventory")
    /\ state.element_inventory = NoText
    /\ state.uploaded_images # <<>>

-----------------------------------------------------------------------------
(* Properties of the error paths *)

NoUploadOnDisk == \A p \in Range(UploadedImages(state)) : p \notin uploads

(* C11: analyze_and_propose called when no uploaded image exists on disk
   returns the input error, stores no inventory, real, empty or an error text,
   in the session state, and leaves workflow_phase as it was. *)
C11_AnalyzeNeedsImage ==
    /\ [][op = "idle" /\ op' = "analyze" /\ NoUploadOnDisk =>
             /\ pc' = "returned"
             /\ ret' = Returned("error_no_image")
             /\ state'.element_inventory = state.element_inventory
             /\ state'.design_alternatives = state.design_alternatives
             /\ state'.workflow_phase = state.workflow_phase]_vars
    /\ [](state.element_inventory # NoValidImagesText)
    /\ [](ret = Returned("error_no_image") => calls = <<>> /\ tasks = <<>>)

(* C11 witness: the input error was returned in a session whose uploaded
   images are listed in the state but are no longer on disk *)
C11_Witness ==
    /\ op = "analyze"
    /\ ret = Returned("error_no_image")
    /\ state.uploaded_images # <<>>
    /\ NoUploadOnDisk

-----------------------------------------------------------------------------
(* Properties of the Edit-Instruction Compiler *)

Instructions(prompts) == [k \in 1..Len(prompts) |-> Instruction(prompts[k])]

ProposalsCompiled == compiled.by = "proposals" /\ plan_reply.kind # "raise"

(* What the three stages make of a text: the delimited blocks when all count
   of them are found, else the long segments when there is one, else the
   whole text *)
DegradesInOrder(text, prompts) ==
    IF Len(StrictPrompts(text)) >= count
    THEN prompts = Instructions(StrictPrompts(text))
    ELSE IF HeuristicPrompts(text) # <<>>
         THEN prompts = Instructions(HeuristicPrompts(text))
         ELSE prompts = <<Instruction(text)>>

(* On every text, empty included, the compiler returns at least one
   instruction, by the three stages in order *)
CompilerDegradesOnTexts ==
    compiled.by = "proposals" /\ plan_reply.kind = "text" =>
        /\ compiled.raised = "none"
        /\ Len(compiled.prompts) >= 1
        /\ DegradesInOrder(plan_reply.text, compiled.prompts)

(* C12: whatever the plan model returned, _ai_create_image_prompts does not
   raise while parsing it and returns at least one instruction: the delimited
   blocks, else the heuristic segments, else the whole text. *)
C12_CompilerNeverFails ==
    ProposalsCompiled =>
        /\ compiled.raised = "none"
        /\ Len(compiled.prompts) >= 1
        /\ DegradesInOrder(plan_reply.text, compiled.prompts)

AllDelimited(text) == \A i \in 1..count : Matches(text, i)

(* C13 as stated: compiling a proposal set returns exactly 3 instructions,
   one per alternative. *)
C13_ExactlyThree ==
    compiled.by = "proposals" /\ plan_reply.kind = "text" =>
        Len(compiled.prompts) = count

(* C13 amended: a compilation of a proposal set that returns yields between
   1 and 3 instructions; it yields 3, the i-th being the block delimited for
   alternative i, when the text holds the three delimited blocks. *)
C13_UpToThree ==
    compiled.by = "proposals" /\ compiled.raised = "none" =>
        /\ Len(compiled.prompts) \in 1..count
        /\ AllDelimited(plan_reply.text) =>
              /\ Len(compiled.prompts) = count
              /\ \A i \in 1..count :
                    compiled.prompts[i] = Instruction(Group(plan_reply.text, i))

(* C13 witness: the text held the delimited blocks of two alternatives only,
   and fewer than 3 instructions came back *)
C13_Witness ==
    /\ compiled.by = "proposals"
    /\ compiled.raised = "none"
    /\ Cardinality({i \in 1..count : Matches(plan_reply.text, i)}) = 2
    /\ Len(compiled.prompts) < count

(* C14: every instruction the compiler returns, for a proposal set on each
   of its three paths and for a refined plan, ends with CONSISTENCY_RULES. *)
C14_RulesAppended ==
    \A k \in 1..Len(compiled.prompts) :
        LET p == compiled.prompts[k]
        IN /\ p[Len(p)] = "CONSISTENCY_RULES"
           /\ \A j \in 1..(Len(p) - 1) : p[j] # "CONSISTENCY_RULES"

(* C14 witness: the whole text of a reply without delimiters and without a
   long segment became the single instruction *)
C14_Witness ==
    /\ compiled.by = "proposals"
    /\ plan_reply.kind = "text"
    /\ plan_reply.text # <<>>
    /\ StrictPrompts(plan_reply.text) = <<>>
    /\ HeuristicPrompts(plan_reply.text) = <<>>
    /\ compiled.prompts = <<Instruction(plan_reply.text)>>

-----------------------------------------------------------------------------
(* Properties of the object storage *)

(* C15: upload_image never raises: with no client, or when the bucket or the
   upload fails, it returns None; and a generation whose upload returned None
   is a successful result that carries the local path. *)
C15_StorageNeverFailsGeneration ==
    gcs_call # NoUpload =>
        /\ gcs_call.url # UploadRaised
        /\ gcs_client # "ready" \/ gcs_call.fault # "none" => gcs_call.url = NoUrl
        /\ gcs_call.folder = "generated" => gen_result = Edited(gcs_call.name)

(* C15 witness: with a working client the upload of a generated image
   failed, None came back and the generation result is the local path *)
C15_Witness ==
    /\ gcs_client = "ready"
    /\ gcs_call.fault = "upload"
    /\ gcs_call.folder = "generated"
    /\ gcs_call.url = NoUrl
    /\ gen_result = Edited(gcs_call.name)

-----------------------------------------------------------------------------
(* Properties of the plan calls and of the session state *)

(* The tool call that starts in this step made these model calls and no more *)
StartsWithCalls(name, kinds) ==
    /\ op = "idle"
    /\ op' = name
    /\ [k \in 1..Len(calls') |-> calls'[k].kind] = kinds

PlanKeys == {"element_inventory", "design_alternatives", "current_cds", "workflow_phase"}

(* C16: when the vision inventory or the generation of the alternatives
   raises in analyze_and_propose, or the update of the specification raises in
   refine_and_generate, the exception leaves the tool and element_inventory,
   design_alternatives, current_cds and workflow_phase are as before. *)
C16_PlanErrorsPropagate ==
    [][\A c \in {<<"analyze", <<"vision">>, "vision">>,
                 <<"analyze", <<"vision", "alternatives">>, "alternatives">>,
                 <<"refine", <<"update_spec">>, "update_spec">>} :
          StartsWithCalls(c[1], c[2]) =>
             /\ pc' = "raised"
             /\ ret' = [kind |-> "raised", cause |-> c[3]]
             /\ tasks' = <<>>
             /\ \A key \in PlanKeys : state'[key] = state[key]]_vars

(* C16 witness: the update of the specification raised in a session that
   had been refined before, and its plan is still the one of that refinement *)
C16_Witness ==
    /\ op = "refine"
    /\ pc = "raised"
    /\ ret.cause = "update_spec"
    /\ state.current_cds.rev = 1
    /\ state.workflow_phase = "refined"

JudgeCallsFor(idx) == {k \in 1..Len(calls) : calls[k] = Call("judge", idx)}

(* In analyze_and_propose every image generated is checked once and nothing
   else is *)
OneReportPerPreview ==
    op = "analyze" /\ pc = "returned" =>
        \A idx \in 1..Len(tasks) :
            Cardinality(JudgeCallsFor(idx)) = (IF tasks[idx].res.kind = "ok" THEN 1 ELSE 0)

(* C17: when a tool returns, one consistency report was computed for every
   image generated in the turn, by analyze_and_propose or by
   refine_and_generate, and none for a generation that failed. *)
C17_OneReportPerImage ==
    pc = "returned" =>
        \A idx \in 1..Len(tasks) :
            Cardinality(JudgeCallsFor(idx)) = (IF tasks[idx].res.kind = "ok" THEN 1 ELSE 0)

(* C18: element_inventory and design_alternatives are written by an analysis
   only, so after any refinements they are what the analysis stored, and
   every plan call of a refinement is given that inventory. *)
C18_InventoryImmutable ==
    /\ [][state'.element_inventory # state.element_inventory
          \/ state'.design_alternatives # state.design_alternatives
             => op = "idle" /\ op' = "analyze"]_vars
    /\ [][op = "idle" /\ op' = "refine" =>
             \A k \in 1..Len(calls') : calls'[k].idx = state.element_inventory.src]_vars
    /\ [](state.element_inventory.kind \in {"none", "inventory"})

(* C18 witness: a second refinement returned, with the inventory and the
   alternatives of the analysis in the state *)
C18_Witness ==
    /\ op = "refine"
    /\ pc = "returned"
    /\ state.current_cds.rev = 2
    /\ state.element_inventory.kind = "inventory"
    /\ state.design_alternatives.kind = "alternatives"
    /\ Len(calls) >= 2

-----------------------------------------------------------------------------
(* Properties of the upload callback *)

UploadKeys == {"uploaded_images", "last_uploaded_image", "_upload_version"}

(* The callback ran on a request with images: files were saved in this step *)
ImagesSaved == op = "idle" /\ op' = "idle" /\ uploads' \ uploads # {}

(* C19: after a run of the upload callback on a request with images,
   uploaded_images lists the images saved in this run and no path of an
   earlier turn, last_uploaded_image is its last element and _upload_version
   grew by one; in every other step the three keys are unchanged. *)
C19_UploadsReplaced ==
    [][IF ImagesSaved
       THEN LET new == state'.uploaded_images
            IN /\ new # <<>>
               /\ Range(new) = uploads' \ uploads
               /\ \A i \in 1..Len(new) : new[i] = UploadPath(state._upload_version, i - 1)
               /\ Range(new) \cap Range(state.uploaded_images) = {}
               /\ state'.last_uploaded_image = new[Len(new)]
               /\ state'._upload_version = state._upload_version + 1
       ELSE \A key \in UploadKeys : state'[key] = state[key]]_vars

(* C19 witness: a second upload, of one image, after a first upload of two
   images that were analysed *)
C19_Witness ==
    /\ op = "idle"
    /\ state._upload_version = 2
    /\ Len(state.uploaded_images) = 1
    /\ state.element_inventory = [kind |-> "inventory", src |-> 0, rev |-> 0]
    /\ state.last_uploaded_image = UploadPath(1, 0)

-----------------------------------------------------------------------------
(* Properties of the memory store *)

(* The records of the section that the last save_section_memory wrote: the
   local file, and the cloud document when its write worked *)
JustWritten ==
    {_read_local(mem.local, _local_path(mem_call.project_id, mem_call.section_id))}
    \cup (IF mem_call.write = "ok"
          THEN {mem.sections[<<mem_call.project_id, mem_call.section_id>>]}
          ELSE {})

(* The sections saved so far under the project of the last call: each save
   writes the local file *)
SavedSections ==
    {id \in SectionIds : _local_path(mem_call.project_id, id) \in DOMAIN mem.local}

(* C20: after save_section_memory(p, s, data), whatever the cloud did, the
   project record read back has a sections_overview with an entry for s that
   has the type and style_summary of the section record just written, and an
   entry for every other section saved under p. *)
C20_OverviewRebuilt ==
    mem_call.op = "save_section" =>
        \A read \in {r \in CloudOutcomes : Reachable(mem.client, r)} :
            LET proj == get_project_memory(mem, mem_call.project_id, read)
                overview == DictGet(proj, "sections_overview", EmptyDict)
            IN /\ "sections_overview" \in DOMAIN proj
               /\ mem_call.section_id \in DOMAIN overview
               /\ overview[mem_call.section_id] \in {OverviewEntry(r) : r \in JustWritten}
               /\ \A id \in SavedSections : id \in DOMAIN overview

(* The sections_overview of the project of the last call, as read back *)
OverviewRead(m, call, read) ==
    DictGet(get_project_memory(m, call.project_id, read), "sections_overview", EmptyDict)

(* This step is a save_section_memory with the arguments of the call before *)
SameSaveAgain ==
    /\ mem_call.op = "save_section"
    /\ mem'.n = mem.n + 1
    /\ mem_call'.op = "save_section"
    /\ mem_call'.project_id = mem_call.project_id
    /\ mem_call'.section_id = mem_call.section_id
    /\ mem_call'.data = mem_call.data

(* Without a cloud the overview is rebuilt from the local files, and saving
   the same data again leaves it as it was *)
IdempotentWithoutCloud ==
    [][SameSaveAgain /\ mem'.client = "unset" =>
          OverviewRead(mem', mem_call, "nocloud") = OverviewRead(mem, mem_call, "nocloud")]_vars

(* C21: saving the same section data twice in a row leaves the project's
   sections_overview, as read back, what it was after the first save. *)
C21_SaveTwiceSameOverview ==
    [][SameSaveAgain =>
          \A read \in {"ok", "raise"} :
              OverviewRead(mem', mem_call, read) = OverviewRead(mem, mem_call, read)]_vars

-----------------------------------------------------------------------------
(* Properties of the Design Specification Engine *)

(* The specifications held in the session *)
StoredSpecs ==
    {engine.design_alternatives[k] : k \in 1..Len(engine.design_alternatives)}
    \cup (IF engine.current_cds = NoSpecification THEN {} ELSE {engine.current_cds.treat})

Refined == engine'.n = engine.n + 1

(* The elements a feedback changes: its target, and the other members of the
   target's group unless it scopes the change *)
Targeted(user_feedback) ==
    IF user_feedback.scoped THEN {user_feedback.target} ELSE GroupOf(user_feedback.target)

(* C22: an element the feedback does not mention has in the specification
   stored by a refinement exactly the treatment it had in the prior one. *)
C22_Inheritance ==
    [][Refined =>
          LET prior == PriorSpec(engine, engine'.user_feedback)
              new == engine'.current_cds.treat
          IN \A e \in (DOMAIN prior) \ Targeted(engine'.user_feedback) :
                e \in DOMAIN new /\ new[e] = prior[e]]_vars

(* C23: every specification stored, each alternative and each refinement,
   has a treatment for each element of the inventory and for nothing else. *)
C23_Completeness ==
    \A spec \in StoredSpecs : DOMAIN spec = engine.inventory

(* C24: a feedback that targets one member of a group without scoping gives
   every member of the group the same treatment in the stored specification. *)
C24_Uniformity ==
    [][Refined /\ ~engine'.user_feedback.scoped =>
          LET new == engine'.current_cds.treat
              group == GroupOf(engine'.user_feedback.target) \cap engine.inventory
          IN \A a, b \in group :
                a \in DOMAIN new /\ b \in DOMAIN new /\ new[a] = new[b]]_vars

(* C25: in every specification stored, a protected element is kept. *)
C25_ProtectedKept ==
    \A spec \in StoredSpecs :
        \A e \in Protected \cap DOMAIN spec : spec[e] = "keep"

-----------------------------------------------------------------------------
(* Properties of the refinement's inputs and of its commit *)

(* A refinement whose updated specification was stored in this step *)
RefinementStored ==
    /\ op' = "refine"
    /\ op # "refine"
    /\ state' # state

(* C26: the first refinement after an analysis builds on that analysis's
   alternatives, and the prior specification a refinement is given stems from
   the inventory it is given with. *)
C26_PriorFromSameAnalysis ==
    [][RefinementStored =>
          /\ state'.current_cds.src = state.element_inventory.src
          /\ state.workflow_phase = "alternatives_shown" =>
                state'.current_cds = UpdatedSpec(state.element_inventory,
                                                 state.design_alternatives)]_vars

(* With one upload every inventory of the session stems from the same images *)
UploadedOnce == state._upload_version <= 1

PriorFromSameImagesIfUploadedOnce ==
    [][RefinementStored /\ UploadedOnce =>
          state'.current_cds.src = state.element_inventory.src]_vars

(* The plan model has answered the update of the specification in this step *)
SpecUpdated ==
    /\ op' = "refine"
    /\ op # "refine"
    /\ ret' # Returned("error_no_inventory")
    /\ ret' # Propagated("update_spec")

Committed(st, refined) ==
    /\ st.current_cds = refined
    /\ st.refined_plan = refined
    /\ st.workflow_phase = "refined"

(* C27: the updated specification is in the state before the instruction is
   compiled and the image generated: when the compilation raises or the
   generation fails, current_cds is the new specification, nothing in the rest
   of the turn takes it back, and the next refinement builds on it. *)
C27_CommittedBeforeCompile ==
    [][/\ SpecUpdated =>
            /\ Committed(state', state'.current_cds)
            /\ state'.current_cds.kind = "cds"
            /\ ~Falsy(state.current_cds) =>
                  state'.current_cds = UpdatedSpec(state.element_inventory, state.current_cds)
            /\ Falsy(state.current_cds) =>
                  state'.current_cds = UpdatedSpec(state.element_inventory, state.design_alternatives)
       /\ op = "refine" =>
            /\ state'.current_cds = state.current_cds
            /\ state'.refined_plan = state.refined_plan
            /\ state'.workflow_phase = state.workflow_phase]_vars

(* The compilation raised in a refinement that built on an earlier one *)
C27_Witness ==
    /\ op = "refine"
    /\ pc = "raised"
    /\ ret = Propagated("refined_prompt")
    /\ Committed(state, state.current_cds)
    /\ state.current_cds.rev = 2

(* A refinement whose image was not generated ends with the new specification *)
C27_GenerationFailed ==
    /\ op = "refine"
    /\ pc = "returned"
    /\ image_status = <<[letter |-> "refined", ok |-> FALSE]>>
    /\ Committed(state, state.current_cds)

-----------------------------------------------------------------------------
(* Properties of the memory store's reads *)

(* What the get matching the last save returns *)
ReadBack(m, call, read) ==
    IF call.op = "save_section"
    THEN get_section_memory(m, call.project_id, call.section_id, read)
    ELSE get_project_memory(m, call.project_id, read)

Contains(record, data) ==
    \A key \in DOMAIN data : key \in DOMAIN record /\ record[key] = data[key]

(* C28: after a save, the matching get returns a record in which every key of
   the saved data has the value just written, whatever the cloud does. *)
C28_ReadYourWrites ==
    mem_call.op \in {"save_section", "save_project"} =>
        \A read \in {r \in CloudOutcomes : Reachable(mem.client, r)} :
            Contains(ReadBack(mem, mem_call, read), mem_call.data)

(* A read that does not reach the cloud returns what was just written *)
ReadYourWritesLocally ==
    mem_call.op \in {"save_section", "save_project"} =>
        \A read \in {r \in {"nocloud", "raise"} : Reachable(mem.client, r)} :
            Contains(ReadBack(mem, mem_call, read), mem_call.data)

(* The overview the last save left in the project's local file *)
LocalOverviewStored == OverviewRead(mem, mem_call, "nocloud")

(* C29: the overview rebuilt for a project holds only sections saved under
   that project, each under the section id it was saved with. *)
C29_ProjectIsolation ==
    mem_call.op = "save_section" =>
        \A id \in DOMAIN LocalOverviewStored :
            <<mem_call.project_id, id>> \in mem_call.saved

(* Among projects whose ids have no separator and sections saved without the
   cloud's listing, the overview holds only the project's own sections *)
PlainIds == {<<"a">>, <<"a", "b">>}

IsolatedForPlainIds ==
    mem_call.op = "save_section"
    /\ (\A saved \in mem_call.saved : saved[1] \in PlainIds) =>
        \A id \in DOMAIN LocalOverviewStored :
            <<mem_call.project_id, id>> \in mem_call.saved

-----------------------------------------------------------------------------
(* Properties of the compiler's fallback *)

ProposalsFromText ==
    /\ compiled.by = "proposals"
    /\ compiled.raised = "none"
    /\ plan_reply.kind = "text"

(* C30: when the delimiters give m instructions, 0 < m < count, the compiler
   returns at least m instructions and those m are among them. *)
C30_StrictKept ==
    ProposalsFromText =>
        LET strict == StrictPrompts(plan_reply.text)
        IN Len(strict) \in 1..(count - 1) =>
              /\ Len(compiled.prompts) >= Len(strict)
              /\ \A k \in 1..Len(strict) :
                    \E j \in 1..Len(compiled.prompts) :
                        compiled.prompts[j] = Instruction(strict[k])

(* When the delimiters give all the instructions, they are what is returned *)
StrictKeptWhenComplete ==
    ProposalsFromText =>
        LET strict == StrictPrompts(plan_reply.text)
        IN Len(strict) >= count =>
              compiled.prompts = [k \in 1..Len(strict) |-> Instruction(strict[k])]

=============================================================================
